---- MODULE Spec2Model ----
(***************************************************************************)
(* Model of mitmproxy/addons/next_layer.py: the NextLayer addon, which     *)
(* decides for a connection (its layer stack, its addresses and the bytes  *)
(* the client has sent so far) which protocol layer is pushed next.        *)
(*                                                                         *)
(* Python values are modelled as follows.                                  *)
(*   None (for a str/bytes option)  the string "None"                      *)
(*   server.address                 <<host, port>>, or <<>> when unset     *)
(*   bytes                          a sequence of byte values 0..255       *)
(*   a layer object                 [cls |-> class name, arg |-> argument] *)
(*   the outcome of a call          [exc |-> "" or the exception raised,   *)
(*                                   layer |-> the layer returned/None]    *)
(***************************************************************************)
EXTENDS Integers, Sequences, FiniteSets, TLC

\* ------------------------------------------------------------------ bounds

\* Longest client byte prefix a connection accumulates.
MaxLen == 5
\* Deepest layer stack the engine builds before the connection is torn down.
MaxDepth == 3

\* ------------------------------------------------------------ Python values

None == "None"

\* Truth value of an optional str/bytes: None and the empty string are falsy.
Truthy(x) == x # None /\ x # ""

NoAddress == <<>>

Layer(cls, arg) == [cls |-> cls, arg |-> arg]

NoLayer == Layer("None", "")

Return(l) == [exc |-> "", layer |-> l]

Raise(e) == [exc |-> e, layer |-> NoLayer]

\* ------------------------------------------------------------------- hosts

\* Host names of the model, and the pattern strings the options may hold.
Hosts == {"evil.com", "EVIL.COM", "good.com"}

Patterns == {"evil\\.com"}

\* str.lower() on the host names of the model.
Lower(host) == IF host = "EVIL.COM" THEN "evil.com" ELSE host

\* The lower-case hosts in which an (unanchored) pattern is found.
Found(pattern) ==
    CASE pattern = "evil\\.com" -> {"evil.com"}
      [] OTHER                  -> {}

\* re.search(rex, host, re.IGNORECASE) is not None; also the search of a
\* pattern compiled with re.IGNORECASE.
re_search(rex, host) == Lower(host) \in Found(rex)

\* ------------------------------------------------------------------- bytes

\* bytes[:n]
Take(data, n) == SubSeq(data, 1, IF Len(data) < n THEN Len(data) ELSE n)

\* bytes.isalpha(): non-empty and every byte an ASCII letter.
isalpha(data) ==
    /\ Len(data) > 0
    /\ \A i \in 1..Len(data) :
          \/ (data[i] >= 65 /\ data[i] <= 90)
          \/ (data[i] >= 97 /\ data[i] <= 122)

\* mitmproxy.net.tls.is_tls_record_magic: 0x16 0x03 0x00..0x03.
is_tls_record_magic(data) ==
    /\ Len(data) >= 3
    /\ data[1] = 22
    /\ data[2] = 3
    /\ data[3] >= 0 /\ data[3] <= 3

\* The ClientHello sniffer: NotTls, NeedsMoreBytes, Malformed or Parsed with
\* the server name (bytes; <<>> stands for None, no SNI extension).
\* A record is the three magic bytes, one length byte n and a body of n
\* bytes, of which the first stands for the whole ClientHello: 1 is a hello
\* without SNI, 101 and 103 are hellos naming a server, anything else is
\* not a ClientHello.
Verdict(v, sni) == [verdict |-> v, sni |-> sni]

sniff(data) ==
    IF ~is_tls_record_magic(data) THEN Verdict("NotTls", <<>>)
    ELSE IF Len(data) < 4 THEN Verdict("NeedsMoreBytes", <<>>)
    ELSE IF data[4] = 0 THEN Verdict("Malformed", <<>>)
    ELSE IF Len(data) < 4 + data[4] THEN Verdict("NeedsMoreBytes", <<>>)
    ELSE IF data[5] = 1 THEN Verdict("Parsed", <<>>)
    ELSE IF data[5] \in {101, 103} THEN Verdict("Parsed", <<data[5]>>)
    ELSE Verdict("Malformed", <<>>)

\* sni.decode("idna") on the server names of the model.
decode_idna(sni) ==
    CASE sni = <<101>> -> "evil.com"
      [] sni = <<103>> -> "good.com"
      [] OTHER         -> ""

\* mitmproxy.proxy2.layers.tls.parse_client_hello, as ignore_connection uses
\* it: it returns a ClientHello (here its sni), or raises ValueError, the one
\* failure ignore_connection handles, when the sniffer has no parsed hello.
parse_client_hello(data) ==
    IF sniff(data).verdict = "Parsed"
    THEN [exc |-> "", sni |-> sniff(data).sni]
    ELSE [exc |-> "ValueError", sni |-> <<>>]

\* mitmproxy.proxy2.layers.tls.HTTP_ALPNS
HTTP_ALPNS == {"h2", "http/1.1", "http/1.0", "http/0.9"}

\* ------------------------------------------------------------------- modes

\* The values of the mode option in the model; "upstream" (no address) is a
\* mode next_layer.py does not recognise.
Modes ==
    {"regular", "transparent", "upstream:http://u:8080",
     "reverse:http://r:80", "socks5", "upstream"}

\* str.startswith on the modes of the model.
startswith(s, prefix) ==
    \/ (prefix = "upstream:" /\ s = "upstream:http://u:8080")
    \/ (prefix = "reverse:" /\ s = "reverse:http://r:80")

\* ------------------------------------------------------------- stack_match

\* isinstance(actual, expected), with typing.Any as the wildcard.
isinstance(actual, expected) == expected = "Any" \/ actual.cls = expected

\* (The lengths are not compared: zip stops at the shorter list.)
stack_match_no_len(context, layers) ==
    \A i \in 1..Len(layers) :
        i <= Len(context.layers) => isinstance(context.layers[i], layers[i])

stack_match(context, layers) ==
    IF Len(context.layers) # Len(layers) THEN FALSE
    ELSE \A i \in 1..Len(layers) : isinstance(context.layers[i], layers[i])

\* --------------------------------------------------------------- NextLayer

\* NextLayer.configure(updated), run with ctx.options already holding the
\* new values.  self is [tcp_hosts, ignore_hosts, allow_hosts]; the result is
\* the exception raised ("" if none) and self as the call leaves it.
\* (configure without the check of mutual exclusivity.)
configure_unchecked(self, options, updated) ==
    LET self1 == IF "tcp_hosts" \in updated
                 THEN [self EXCEPT !.tcp_hosts = options.tcp_hosts]
                 ELSE self
    IN  IF "allow_hosts" \in updated \/ "ignore_hosts" \in updated
        THEN [exc |-> "",
              self |-> [self1 EXCEPT !.ignore_hosts = options.ignore_hosts,
                                     !.allow_hosts = options.allow_hosts]]
        ELSE [exc |-> "", self |-> self1]

configure(self, options, updated) ==
    LET self1 == IF "tcp_hosts" \in updated
                 THEN [self EXCEPT !.tcp_hosts = options.tcp_hosts]
                 ELSE self
    IN  IF "allow_hosts" \in updated \/ "ignore_hosts" \in updated
        THEN IF options.allow_hosts # {} /\ options.ignore_hosts # {}
             THEN [exc |-> "OptionsError", self |-> self1]
             ELSE [exc |-> "",
                   self |-> [self1 EXCEPT !.ignore_hosts = options.ignore_hosts,
                                          !.allow_hosts = options.allow_hosts]]
        ELSE [exc |-> "", self |-> self1]

\* The answers of ignore_connection: [exc, value], value "True", "False" or
\* "None".
Answer(v) == [exc |-> "", value |-> v]

\* (The allow list read as an ignore list.)
filter_answer_inverted(options, hostnames) ==
    IF options.ignore_hosts # {}
    THEN IF \E host \in hostnames : \E rex \in options.ignore_hosts :
                re_search(rex, host)
         THEN Answer("True") ELSE Answer("False")
    ELSE IF \E host \in hostnames : \E rex \in options.allow_hosts :
                re_search(rex, host)
         THEN Answer("True") ELSE Answer("False")

\* The end of ignore_connection: the host names against the ignore list or,
\* with no ignore list, against the allow list.
filter_answer(options, hostnames) ==
    IF options.ignore_hosts # {}
    THEN IF \E host \in hostnames : \E rex \in options.ignore_hosts :
                re_search(rex, host)
         THEN Answer("True") ELSE Answer("False")
    ELSE IF \E host \in hostnames : \E rex \in options.allow_hosts :
                re_search(rex, host)
         THEN Answer("False") ELSE Answer("True")

\* (The lists are consulted with no host name known.)
ignore_connection_unknown_host(options, context, data_client) ==
    IF options.ignore_hosts = {} /\ options.allow_hosts = {} THEN Answer("False")
    ELSE
    LET fromAddress == IF context.server_address # NoAddress
                       THEN {context.server_address[1]} ELSE {}
        hello == parse_client_hello(data_client)
    IN  IF is_tls_record_magic(data_client) /\ hello.exc = "ValueError"
        THEN Answer("None")
        ELSE IF is_tls_record_magic(data_client) /\ hello.sni = <<>>
        THEN [exc |-> "AttributeError", value |-> "None"]
        ELSE
        LET hostnames == IF is_tls_record_magic(data_client)
                         THEN fromAddress \cup {decode_idna(hello.sni)}
                         ELSE fromAddress
        IN  filter_answer(options, hostnames)

ignore_connection(options, context, data_client) ==
    IF options.ignore_hosts = {} /\ options.allow_hosts = {} THEN Answer("False")
    ELSE
    LET fromAddress == IF context.server_address # NoAddress
                       THEN {context.server_address[1]} ELSE {}
        hello == parse_client_hello(data_client)
    IN  IF is_tls_record_magic(data_client) /\ hello.exc = "ValueError"
        THEN Answer("None")
        ELSE IF is_tls_record_magic(data_client) /\ hello.sni = <<>>
        THEN [exc |-> "AttributeError", value |-> "None"]
        ELSE
        LET hostnames == IF is_tls_record_magic(data_client)
                         THEN fromAddress \cup {decode_idna(hello.sni)}
                         ELSE fromAddress
        IN  IF hostnames = {} THEN Answer("False")
            ELSE filter_answer(options, hostnames)

\* (A mode that is not recognised gets the top layer of a regular proxy.)
make_top_layer_default(options, context) ==
    IF options.mode = "transparent"
    THEN Return(Layer("TransparentProxy", ""))
    ELSE IF startswith(options.mode, "reverse:")
    THEN Return(Layer("ReverseProxy", ""))
    ELSE IF options.mode = "socks5"
    THEN Raise("NotImplementedError: Mode not implemented.")
    ELSE Return(Layer("HttpProxy", ""))

make_top_layer(options, context) ==
    IF options.mode = "regular" \/ startswith(options.mode, "upstream:")
    THEN Return(Layer("HttpProxy", ""))
    ELSE IF options.mode = "transparent"
    THEN Return(Layer("TransparentProxy", ""))
    ELSE IF startswith(options.mode, "reverse:")
    THEN Return(Layer("ReverseProxy", ""))
    ELSE IF options.mode = "socks5"
    THEN Raise("NotImplementedError: Mode not implemented.")
    ELSE Raise("NotImplementedError: Unknown mode.")

\* (The SNI of the client is not looked at.)
tcp_hosts_match_address_only(self, context) ==
    \E rex \in self.tcp_hosts :
        context.server_address # NoAddress
          /\ re_search(rex, context.server_address[1])

\* Step 4 of _next_layer: some pattern of self.tcp_hosts is found in the
\* server address host or in the client's SNI.
tcp_hosts_match(self, context) ==
    \E rex \in self.tcp_hosts :
        \/ (context.server_address # NoAddress
              /\ re_search(rex, context.server_address[1]))
        \/ (Truthy(context.client_sni) /\ re_search(rex, context.client_sni))

\* (Any mode layer alone is taken to manage the server side itself.)
tls_layer_any_mode(context) ==
    IF \/ (context.layers[Len(context.layers)]).cls = "ServerTLSLayer"
       \/ stack_match(context, <<"Any">>)
    THEN Return(Layer("ClientTLSLayer", ""))
    ELSE Return(Layer("ServerTLSLayer", ""))

\* Step 2 of _next_layer: the TLS layer for bytes with the record magic.
tls_layer(context) ==
    IF \/ (context.layers[Len(context.layers)]).cls = "ServerTLSLayer"
       \/ stack_match(context, <<"ReverseProxy">>)
       \/ stack_match(context, <<"HttpProxy">>)
    THEN Return(Layer("ClientTLSLayer", ""))
    ELSE Return(Layer("ServerTLSLayer", ""))

\* Step 3 of _next_layer: the HTTP layer of a regular or upstream proxy.
proxy_http_layer(options) ==
    IF options.mode = "regular"
    THEN Return(Layer("HttpLayer", "regular"))
    ELSE Return(Layer("HttpLayer", "upstream"))

\* (All the bytes, not the first three, are tested for letters.)
raw_tcp_all_bytes(options, context, data_client) ==
    LET alpn_indicates_non_http ==
            Truthy(context.client_alpn) /\ context.client_alpn \notin HTTP_ALPNS
        probably_no_http == ~isalpha(data_client)
    IN  options.rawtcp /\ (alpn_indicates_non_http \/ probably_no_http)

\* (The heuristic is applied whether rawtcp is set or not.)
raw_tcp_unconditional(options, context, data_client) ==
    LET alpn_indicates_non_http ==
            Truthy(context.client_alpn) /\ context.client_alpn \notin HTTP_ALPNS
        probably_no_http == ~isalpha(Take(data_client, 3))
    IN  alpn_indicates_non_http \/ probably_no_http

\* Step 5 of _next_layer: the raw tcp heuristic.
raw_tcp(options, context, data_client) ==
    LET alpn_indicates_non_http ==
            Truthy(context.client_alpn) /\ context.client_alpn \notin HTTP_ALPNS
        probably_no_http == ~isalpha(Take(data_client, 3))
    IN  options.rawtcp /\ (alpn_indicates_non_http \/ probably_no_http)

\* (The tcp_hosts are looked at before the stack of an HTTP proxy.)
classify_tcp_first(self, options, context, data_client) ==
    IF is_tls_record_magic(data_client) THEN tls_layer(context)
    ELSE IF tcp_hosts_match(self, context)
    THEN Return(Layer("TCPLayer", "ignore=False"))
    ELSE IF \/ stack_match(context, <<"HttpProxy">>)
            \/ stack_match(context, <<"HttpProxy", "ClientTLSLayer">>)
    THEN proxy_http_layer(options)
    ELSE IF raw_tcp(options, context, data_client)
    THEN Return(Layer("TCPLayer", "ignore=False"))
    ELSE Return(Layer("HttpLayer", "transparent"))

\* (The default is the HTTP layer of the proxy mode.)
classify_default_by_mode(self, options, context, data_client) ==
    IF is_tls_record_magic(data_client) THEN tls_layer(context)
    ELSE IF \/ stack_match(context, <<"HttpProxy">>)
            \/ stack_match(context, <<"HttpProxy", "ClientTLSLayer">>)
    THEN proxy_http_layer(options)
    ELSE IF tcp_hosts_match(self, context)
    THEN Return(Layer("TCPLayer", "ignore=False"))
    ELSE IF raw_tcp(options, context, data_client)
    THEN Return(Layer("TCPLayer", "ignore=False"))
    ELSE proxy_http_layer(options)

\* Steps 2 to 6 of _next_layer, for a connection that is not ignored.
classify(self, options, context, data_client) ==
    IF is_tls_record_magic(data_client) THEN tls_layer(context)
    ELSE IF \/ stack_match(context, <<"HttpProxy">>)
            \/ stack_match(context, <<"HttpProxy", "ClientTLSLayer">>)
    THEN proxy_http_layer(options)
    ELSE IF tcp_hosts_match(self, context)
    THEN Return(Layer("TCPLayer", "ignore=False"))
    ELSE IF raw_tcp(options, context, data_client)
    THEN Return(Layer("TCPLayer", "ignore=False"))
    ELSE Return(Layer("HttpLayer", "transparent"))

\* (The number of bytes is checked before the empty stack.)
_next_layer_len_first(self, options, context, data_client) ==
    IF Len(data_client) < 3 THEN Return(NoLayer)
    ELSE IF Len(context.layers) = 0 THEN make_top_layer(options, context)
    ELSE
    LET ignore == ignore_connection(options, context, data_client)
    IN  IF ignore.exc # "" THEN Raise(ignore.exc)
        ELSE IF ignore.value = "True" THEN Return(Layer("TCPLayer", "ignore=True"))
        ELSE IF ignore.value = "None" THEN Return(NoLayer)
        ELSE classify(self, options, context, data_client)

\* (TLS is checked before --ignore/--allow.)
_next_layer_tls_first(self, options, context, data_client) ==
    IF Len(context.layers) = 0 THEN make_top_layer(options, context)
    ELSE IF Len(data_client) < 3 THEN Return(NoLayer)
    ELSE IF is_tls_record_magic(data_client) THEN tls_layer(context)
    ELSE
    LET ignore == ignore_connection(options, context, data_client)
    IN  IF ignore.exc # "" THEN Raise(ignore.exc)
        ELSE IF ignore.value = "True" THEN Return(Layer("TCPLayer", "ignore=True"))
        ELSE IF ignore.value = "None" THEN Return(NoLayer)
        ELSE classify(self, options, context, data_client)

\* (--ignore/--allow is checked before the number of bytes.)
_next_layer_filter_first(self, options, context, data_client) ==
    IF Len(context.layers) = 0 THEN make_top_layer(options, context)
    ELSE
    LET ignore == ignore_connection(options, context, data_client)
    IN  IF ignore.exc # "" THEN Raise(ignore.exc)
        ELSE IF ignore.value = "True" THEN Return(Layer("TCPLayer", "ignore=True"))
        ELSE IF ignore.value = "None" THEN Return(NoLayer)
        ELSE IF Len(data_client) < 3 THEN Return(NoLayer)
        ELSE classify(self, options, context, data_client)

\* (A filter that waits for more data is read as "do not ignore".)
_next_layer_none_is_false(self, options, context, data_client) ==
    IF Len(context.layers) = 0 THEN make_top_layer(options, context)
    ELSE IF Len(data_client) < 3 THEN Return(NoLayer)
    ELSE
    LET ignore == ignore_connection(options, context, data_client)
    IN  IF ignore.exc # "" THEN Raise(ignore.exc)
        ELSE IF ignore.value = "True" THEN Return(Layer("TCPLayer", "ignore=True"))
        ELSE classify(self, options, context, data_client)

\* (The top layer is made whenever there are no bytes yet.)
_next_layer_top_on_no_data(self, options, context, data_client) ==
    IF Len(context.layers) = 0 \/ Len(data_client) = 0
    THEN make_top_layer(options, context)
    ELSE IF Len(data_client) < 3 THEN Return(NoLayer)
    ELSE
    LET ignore == ignore_connection(options, context, data_client)
    IN  IF ignore.exc # "" THEN Raise(ignore.exc)
        ELSE IF ignore.value = "True" THEN Return(Layer("TCPLayer", "ignore=True"))
        ELSE IF ignore.value = "None" THEN Return(NoLayer)
        ELSE classify(self, options, context, data_client)

_next_layer(self, options, context, data_client) ==
    IF Len(context.layers) = 0 THEN make_top_layer(options, context)
    ELSE IF Len(data_client) < 3 THEN Return(NoLayer)
    ELSE
    LET ignore == ignore_connection(options, context, data_client)
    IN  IF ignore.exc # "" THEN Raise(ignore.exc)
        ELSE IF ignore.value = "True" THEN Return(Layer("TCPLayer", "ignore=True"))
        ELSE IF ignore.value = "None" THEN Return(NoLayer)
        ELSE classify(self, options, context, data_client)

\* ------------------------------------------------------------------- state

VARIABLES
    options,      \* ctx.options: mode, rawtcp, ignore_hosts, allow_hosts
    addon,        \* the NextLayer addon: tcp_hosts, ignore_hosts, allow_hosts
    context,      \* the connection: layers, server_address, client_sni, client_alpn
    data_client,  \* the bytes the client has sent to the layer being decided
    last          \* the last handler run and its outcome

vars == <<options, addon, context, data_client, last>>

\* The values the three host options take.
HostLists == SUBSET Patterns

\* Destinations of the connections of the model.
Addresses == {NoAddress, <<"EVIL.COM", 443>>, <<"good.com", 80>>}

\* Client byte streams: a head, followed by zero bytes.
Heads ==
    { <<71, 69, 84, 32>>,       \* "GET "
      <<71, 69, 49>>,           \* "GE1"
      <<1, 2, 3>>,              \* binary
      <<22, 3, 1, 1, 101>>,     \* ClientHello, SNI evil.com
      <<22, 3, 1, 1, 103>>,     \* ClientHello, SNI good.com
      <<22, 3, 1, 1, 1>>,       \* ClientHello without SNI
      <<22, 3, 1, 1, 2>> }      \* record with a corrupt ClientHello

Bytes == {0} \cup UNION {{h[i] : i \in 1..Len(h)} : h \in Heads}

Stream(head, n) == [i \in 1..n |-> IF i <= Len(head) THEN head[i] ELSE 0]

Prefixes == {Stream(head, n) : head \in Heads, n \in 0..MaxLen}

Idle == [op |-> "", exc |-> "", layer |-> NoLayer]

Ran(op, outcome) == [op |-> op, exc |-> outcome.exc, layer |-> outcome.layer]

NewContext(address) ==
    [layers |-> <<>>, server_address |-> address,
     client_sni |-> None, client_alpn |-> None]

\* A layer below which no further layer is decided.
Terminal(layer) == layer.cls \in {"HttpLayer", "TCPLayer"}

Decided ==
    /\ Len(context.layers) > 0
    /\ Terminal(context.layers[Len(context.layers)])

Init ==
    /\ options = [mode |-> "regular", rawtcp |-> FALSE, ignore_hosts |-> {},
                  allow_hosts |-> {}]
    /\ addon = [tcp_hosts |-> {}, ignore_hosts |-> {}, allow_hosts |-> {}]
    /\ context = NewContext(NoAddress)
    /\ data_client = <<>>
    /\ last = Idle

\* ctx.options as configure reads them during an update: the options kept,
\* and the tcp_hosts option, which nothing but configure reads.
Requested(opts, tcp) ==
    [mode |-> opts.mode, rawtcp |-> opts.rawtcp, ignore_hosts |-> opts.ignore_hosts,
     allow_hosts |-> opts.allow_hosts, tcp_hosts |-> tcp]

Kept(requested) ==
    [mode |-> requested.mode, rawtcp |-> requested.rawtcp,
     ignore_hosts |-> requested.ignore_hosts, allow_hosts |-> requested.allow_hosts]

\* The option updates of the model: the keys updated and the options as
\* requested.
Updates ==
    LET now == Requested(options, addon.tcp_hosts)
    IN  {<<{"mode"}, [now EXCEPT !.mode = m]>> : m \in Modes}
        \cup {<<{"rawtcp"}, [now EXCEPT !.rawtcp = b]>> : b \in BOOLEAN}
        \cup {<<{"tcp_hosts"}, [now EXCEPT !.tcp_hosts = h]>> : h \in HostLists}
        \cup {<<{"ignore_hosts"}, [now EXCEPT !.ignore_hosts = h]>> : h \in HostLists}
        \cup {<<{"allow_hosts"}, [now EXCEPT !.allow_hosts = h]>> : h \in HostLists}
        \cup {<<{"tcp_hosts", "allow_hosts"},
                [now EXCEPT !.tcp_hosts = t, !.allow_hosts = h]>> :
                t \in HostLists, h \in HostLists}

\* An option update: the option manager installs the requested options and
\* runs configure.
\* The option manager: the requested options stay installed unless
\* configure raised, and then the options are what they were.
Installed(requested, exc) == IF exc = "" THEN Kept(requested) ELSE options

ConfigureWith(updated, requested) ==
    LET ran == configure(addon, requested, updated)
    IN  /\ requested # Requested(options, addon.tcp_hosts)
        /\ addon' = ran.self
        /\ options' = Installed(requested, ran.exc)
        /\ last' = IF ran.exc = "" THEN Idle
                   ELSE [op |-> "configure", exc |-> ran.exc, layer |-> NoLayer]
        /\ UNCHANGED <<context, data_client>>

Configure == \E u \in Updates : ConfigureWith(u[1], u[2])

\* The client sends one more byte.
Receive ==
    /\ ~Decided
    /\ Len(data_client) < MaxLen
    /\ \E b \in Bytes :
          /\ Append(data_client, b) \in Prefixes
          /\ data_client' = Append(data_client, b)
    /\ last' = Idle
    /\ UNCHANGED <<options, addon, context>>

\* NextLayer.next_layer: the hook, asked for the layer to push.
next_layer ==
    /\ ~Decided
    /\ last' = Ran("next_layer", _next_layer(addon, options, context, data_client))
    /\ UNCHANGED <<options, addon, context, data_client>>

\* ALPN protocols a client TLS layer may negotiate.
Alpns == {None, "h2", "imap"}

\* The engine pushes the layer the hook returned.  A client TLS layer
\* records the SNI of the ClientHello and the ALPN it negotiates, and hands
\* the decrypted stream to the next layer; a terminal layer takes the
\* buffered bytes.
Push ==
    /\ last.op = "next_layer" /\ last.exc = "" /\ last.layer # NoLayer
    /\ Len(context.layers) < MaxDepth
    /\ \E alpn \in Alpns :
         context' =
           IF last.layer.cls = "ClientTLSLayer"
           THEN [context EXCEPT
                   !.layers = Append(@, last.layer),
                   !.client_sni =
                       IF sniff(data_client).sni # <<>>
                       THEN decode_idna(sniff(data_client).sni) ELSE None,
                   !.client_alpn = alpn]
           ELSE [context EXCEPT !.layers = Append(@, last.layer)]
    /\ data_client' = IF last.layer.cls = "ClientTLSLayer" \/ Terminal(last.layer)
                      THEN <<>> ELSE data_client
    /\ last' = Idle
    /\ UNCHANGED <<options, addon>>

\* The connection ends and the next one arrives.
NewConnection ==
    /\ \E address \in Addresses : context' = NewContext(address)
    /\ data_client' = <<>>
    /\ last' = Idle
    /\ UNCHANGED <<options, addon>>

Next == Configure \/ Receive \/ next_layer \/ Push \/ NewConnection

Spec == Init /\ [][Next]_vars

\* One connection, served under options that do not change while it lasts:
\* the options are any that configure accepts, the addon holds the lists
\* configure compiled from them.
Configured ==
    {o \in [mode : Modes, rawtcp : BOOLEAN, ignore_hosts : HostLists,
            allow_hosts : HostLists] :
        ~(o.ignore_hosts # {} /\ o.allow_hosts # {})}

ConnectionInit ==
    /\ options \in Configured
    /\ \E tcp \in HostLists :
          addon = [tcp_hosts |-> tcp, ignore_hosts |-> options.ignore_hosts,
                   allow_hosts |-> options.allow_hosts]
    /\ \E address \in Addresses : context = NewContext(address)
    /\ data_client = <<>>
    /\ last = Idle

ConnectionNext == Receive \/ next_layer \/ Push

\* The engine asks the hook again whenever it has not yet got an answer for
\* the bytes it holds.
Connection ==
    ConnectionInit /\ [][ConnectionNext]_vars /\ WF_vars(next_layer)

\* ------------------------------------------------------------------ claims

\* The hook has run on the connection and the options as they are now.
Asked == last.op = "next_layer"

Asks(layer) == last = Ran("next_layer", Return(layer))

\* The hook returned None: no layer yet, ask again with more bytes.
Deferred == Asked /\ last.exc = "" /\ last.layer = NoLayer

\* The classes of the layers of the stack, outermost first.
StackClasses == [i \in 1..Len(context.layers) |-> context.layers[i].cls]

HasLayers == Len(context.layers) > 0

TlsBytes == is_tls_record_magic(data_client)

\* The bytes are no TLS record, or hold a ClientHello that names a server.
FilterCanRead ==
    \/ ~TlsBytes
    \/ (sniff(data_client).verdict = "Parsed" /\ sniff(data_client).sni # <<>>)

\* The connection filter lets the connection through.
Allowed == ignore_connection(options, context, data_client) = Answer("False")

ServerIs(host) ==
    context.server_address # NoAddress /\ context.server_address[1] = host

ImplementedModes ==
    {"regular", "transparent", "upstream:http://u:8080", "reverse:http://r:80"}

\* C1: on an empty stack the hook's result is fixed by the mode alone,
\* whatever the bytes and the host options: HttpProxy for regular and
\* upstream:<addr>, TransparentProxy for transparent, ReverseProxy for
\* reverse:<addr>, an error for any other mode; never None, never a
\* protocol layer.
C1_Bootstrap ==
    (Asked /\ ~HasLayers) =>
        /\ options.mode \in {"regular", "upstream:http://u:8080"}
              => Asks(Layer("HttpProxy", ""))
        /\ options.mode = "transparent" => Asks(Layer("TransparentProxy", ""))
        /\ options.mode = "reverse:http://r:80" => Asks(Layer("ReverseProxy", ""))
        /\ options.mode \notin ImplementedModes => last.exc # ""
        /\ ~Deferred
        /\ last.layer.cls \notin
              {"ClientTLSLayer", "ServerTLSLayer", "HttpLayer", "TCPLayer"}

C1_Witness ==
    /\ Asked /\ ~HasLayers
    /\ TlsBytes /\ options.ignore_hosts # {} /\ options.rawtcp
    /\ options.mode = "transparent"
    /\ Asks(Layer("TransparentProxy", ""))

\* The byte prefixes of the model that extend data.
Extensions(data) ==
    {e \in Prefixes : Len(e) > Len(data) /\ SubSeq(e, 1, Len(data)) = data}

\* C2: a layer the hook returned on at least three bytes is the layer it
\* returns on every longer prefix of the same stream, the connection and the
\* options being the same; and the filter, consulted on at least three
\* bytes, gives the same answer True or False on every longer prefix.
C2_Monotonic ==
    (Asked /\ Len(data_client) >= 3) =>
        \A e \in Extensions(data_client) :
            /\ (last.exc = "" /\ last.layer # NoLayer)
                  => Ran("next_layer", _next_layer(addon, options, context, e)) = last
            /\ (HasLayers
                  /\ ignore_connection(options, context, data_client)
                        \in {Answer("True"), Answer("False")})
                  => ignore_connection(options, context, e)
                        = ignore_connection(options, context, data_client)

C2_Witness ==
    /\ Asked /\ HasLayers
    /\ data_client = <<71, 69, 84>>
    /\ Extensions(data_client) # {}
    /\ options.rawtcp /\ options.ignore_hosts # {}
    /\ Asks(Layer("HttpLayer", "transparent"))

\* The ignore list holds a pattern found in the server address host.
IgnoredServer == options.ignore_hosts = {"evil\\.com"} /\ ServerIs("EVIL.COM")

C4_Original ==
    (Asked /\ HasLayers /\ Len(data_client) >= 3
        /\ sniff(data_client).verdict = "Malformed")
    => (last.exc = "" /\ last.layer # NoLayer)

\* C5: neither the options nor the addon ever hold an ignore list and an
\* allow list together: an update of allow_hosts or ignore_hosts that would
\* leave both non-empty ends in OptionsError and is not installed.
C5_MutuallyExclusive ==
    /\ ~(options.ignore_hosts # {} /\ options.allow_hosts # {})
    /\ ~(addon.ignore_hosts # {} /\ addon.allow_hosts # {})

C5_Witness ==
    /\ last.op = "configure" /\ last.exc = "OptionsError"
    /\ addon.ignore_hosts # {} /\ addon.allow_hosts = {}

\* C6: on an empty stack, with mode socks5 or a mode that is none of
\* regular, transparent, upstream:<addr>, reverse:<addr>, the hook raises
\* NotImplementedError and returns no layer; the stack is still empty.
C6_UnknownModeFatal ==
    (Asked /\ options.mode \notin ImplementedModes /\ ~HasLayers) =>
        /\ last.layer = NoLayer
        /\ last.exc = IF options.mode = "socks5"
                      THEN "NotImplementedError: Mode not implemented."
                      ELSE "NotImplementedError: Unknown mode."

C6_Witness ==
    /\ Asked /\ ~HasLayers /\ options.mode = "upstream"
    /\ last.exc = "NotImplementedError: Unknown mode."
    /\ Len(data_client) >= 3

\* The premise of C7: TLS bytes, no ServerTLSLayer in the stack, and a stack
\* that is neither [ReverseProxy] nor [HttpProxy].
TlsFirst ==
    /\ TlsBytes
    /\ \A i \in 1..Len(context.layers) : context.layers[i].cls # "ServerTLSLayer"
    /\ StackClasses \notin {<<"ReverseProxy">>, <<"HttpProxy">>}

\* C7 as stated: under that premise the hook returns ServerTLSLayer.
C7_Original == (Asked /\ TlsFirst) => Asks(Layer("ServerTLSLayer", ""))

\* C7, amended: under that premise, on a non-empty stack, the hook returns
\* ServerTLSLayer when the connection filter lets the connection through,
\* and in no case ClientTLSLayer, HttpLayer or TCPLayer(ignore=False).
C7_TlsFirst ==
    (Asked /\ TlsFirst /\ HasLayers) =>
        /\ Allowed => Asks(Layer("ServerTLSLayer", ""))
        /\ last.layer.cls \notin {"ClientTLSLayer", "HttpLayer"}
        /\ last.layer # Layer("TCPLayer", "ignore=False")

C7_Witness ==
    /\ Asked /\ TlsFirst
    /\ StackClasses = <<"HttpProxy", "ClientTLSLayer">>
    /\ options.allow_hosts # {}
    /\ Asks(Layer("ServerTLSLayer", ""))

\* The premise of C8: the stack of a regular proxy, plain or secure.
SecureWebProxy ==
    /\ StackClasses \in {<<"HttpProxy">>, <<"HttpProxy", "ClientTLSLayer">>}
    /\ options.mode = "regular"

\* C8 as stated: on [HttpProxy] and on [HttpProxy, ClientTLSLayer] with mode
\* regular the hook returns HttpLayer(regular).
C8_Original == (Asked /\ SecureWebProxy) => Asks(Layer("HttpLayer", "regular"))

\* C8, amended: on those stacks with mode regular the hook returns
\* HttpLayer(regular) once there are three bytes that are no TLS record and
\* the connection filter lets the connection through; whatever tcp_hosts
\* and rawtcp say.
C8_SecureWebProxy ==
    (Asked /\ SecureWebProxy /\ Len(data_client) >= 3 /\ ~TlsBytes /\ Allowed)
    => Asks(Layer("HttpLayer", "regular"))

C8_Witness ==
    /\ Asked /\ SecureWebProxy
    /\ StackClasses = <<"HttpProxy", "ClientTLSLayer">>
    /\ addon.tcp_hosts # {} /\ ServerIs("EVIL.COM") /\ context.client_sni = "evil.com"
    /\ options.rawtcp /\ data_client = <<1, 2, 3>>
    /\ Asks(Layer("HttpLayer", "regular"))

\* The premise of C9: a tcp_hosts pattern is found in the server address
\* host or in the SNI the client negotiated.
TcpHost ==
    /\ addon.tcp_hosts = {"evil\\.com"}
    /\ (ServerIs("EVIL.COM") \/ context.client_sni = "evil.com")

\* C9 as stated: under that premise the hook returns TCPLayer(ignore=False).
C9_Original == (Asked /\ TcpHost) => Asks(Layer("TCPLayer", "ignore=False"))

\* C9, amended: under that premise the hook returns TCPLayer(ignore=False)
\* once there are three bytes that are no TLS record, on a non-empty stack
\* other than [HttpProxy] and [HttpProxy, ClientTLSLayer], when the
\* connection filter lets the connection through; also for bytes that look
\* like HTTP, with rawtcp on or off.
C9_TcpHosts ==
    (Asked /\ TcpHost /\ HasLayers /\ Len(data_client) >= 3 /\ ~TlsBytes /\ Allowed
        /\ StackClasses \notin {<<"HttpProxy">>, <<"HttpProxy", "ClientTLSLayer">>})
    => Asks(Layer("TCPLayer", "ignore=False"))

C9_Witness ==
    /\ Asked /\ TcpHost
    /\ ~ServerIs("EVIL.COM")
    /\ ~options.rawtcp /\ data_client = <<71, 69, 84>>
    /\ Asks(Layer("TCPLayer", "ignore=False"))

\* The host names the filter can know: the server address host and the SNI
\* of a ClientHello the bytes hold.
Candidates ==
    (IF context.server_address # NoAddress
     THEN {context.server_address[1]} ELSE {})
    \cup (IF sniff(data_client).verdict = "Parsed" /\ sniff(data_client).sni # <<>>
          THEN {decode_idna(sniff(data_client).sni)} ELSE {})

SomeAllowed ==
    \E host \in Candidates : \E rex \in options.allow_hosts : re_search(rex, host)

NoFilter == options.ignore_hosts = {} /\ options.allow_hosts = {}

\* The stack has the shape of a regular or upstream proxy, plain or secure.
ProxyHttpShape ==
    StackClasses \in {<<"HttpProxy">>, <<"HttpProxy", "ClientTLSLayer">>}

\* The client negotiated an ALPN protocol that is not HTTP.
AlpnNotHttp ==
    context.client_alpn \notin {None, "h2", "http/1.1", "http/1.0", "http/0.9"}

\* The first three bytes are not all letters.
NoHttpVerb ==
    \E i \in 1..3 :
        \/ i > Len(data_client)
        \/ ~(\/ (data_client[i] >= 65 /\ data_client[i] <= 90)
             \/ (data_client[i] >= 97 /\ data_client[i] <= 122))

\* The premise of C11: no filter, no tcp_hosts match, bytes that are no TLS
\* record, a non-empty stack that is not the stack of a regular proxy.
HeuristicCase ==
    /\ HasLayers /\ NoFilter /\ ~tcp_hosts_match(addon, context)
    /\ ~TlsBytes /\ ~ProxyHttpShape

\* C11 as stated: under that premise, with rawtcp set, a non-HTTP ALPN or
\* three first bytes that are not all letters give TCPLayer(ignore=False);
\* with rawtcp not set the hook returns no TCPLayer.
C11_Original ==
    (Asked /\ HeuristicCase) =>
        /\ (options.rawtcp /\ (AlpnNotHttp \/ NoHttpVerb))
              => Asks(Layer("TCPLayer", "ignore=False"))
        /\ ~options.rawtcp => last.layer.cls # "TCPLayer"

\* C11, amended: under that premise and once there are three bytes, the hook
\* returns TCPLayer(ignore=False) if rawtcp is set and the ALPN is not HTTP
\* or the first three bytes are not all letters, and HttpLayer(transparent)
\* otherwise; with fewer than three bytes it returns no layer, whatever the
\* ALPN.
C11_Heuristic ==
    (Asked /\ HeuristicCase) =>
        IF Len(data_client) < 3 THEN Deferred
        ELSE IF options.rawtcp /\ (AlpnNotHttp \/ NoHttpVerb)
        THEN Asks(Layer("TCPLayer", "ignore=False"))
        ELSE Asks(Layer("HttpLayer", "transparent"))

C11_Witness ==
    /\ Asked /\ HeuristicCase
    /\ options.rawtcp /\ context.client_alpn = "imap"
    /\ data_client = <<71, 69, 84>>
    /\ Asks(Layer("TCPLayer", "ignore=False"))

\* C12 as stated: on a non-empty stack, with no host list configured, three
\* bytes or more that are no TLS record and rawtcp not set, the hook returns
\* HttpLayer(transparent).
C12_Original ==
    (Asked /\ HasLayers /\ NoFilter /\ addon.tcp_hosts = {}
        /\ Len(data_client) >= 3 /\ ~TlsBytes /\ ~options.rawtcp)
    => Asks(Layer("HttpLayer", "transparent"))

\* C12, amended: on a non-empty stack that is neither [HttpProxy] nor
\* [HttpProxy, ClientTLSLayer], with no ignore or allow list, no tcp_hosts
\* pattern matching, three bytes or more that are no TLS record and rawtcp
\* not set, the hook returns HttpLayer(transparent); on those two stacks it
\* returns the HttpLayer of the proxy mode instead.
C12_Default ==
    (Asked /\ HasLayers /\ NoFilter /\ ~tcp_hosts_match(addon, context)
        /\ Len(data_client) >= 3 /\ ~TlsBytes /\ ~options.rawtcp)
    => IF ProxyHttpShape
       THEN last.layer.cls = "HttpLayer" /\ last.layer.arg # "transparent"
       ELSE Asks(Layer("HttpLayer", "transparent"))

C12_Witness ==
    /\ Asked /\ NoFilter /\ ~options.rawtcp
    /\ StackClasses = <<"TransparentProxy">>
    /\ options.mode = "regular"
    /\ data_client = <<71, 69, 84, 32>>
    /\ Asks(Layer("HttpLayer", "transparent"))

\* C13: on a non-empty stack with fewer than three bytes the hook returns
\* no layer and raises nothing, whatever the mode, the host lists, rawtcp,
\* the stack and the addresses are; the connection filter has no say, also
\* where it would have the connection ignored.
C13_InsufficientData ==
    (Asked /\ HasLayers /\ Len(data_client) < 3) => Deferred

C13_Witness ==
    /\ Asked /\ HasLayers /\ Len(data_client) = 2
    /\ ignore_connection(options, context, data_client) = Answer("True")
    /\ addon.tcp_hosts # {} /\ options.rawtcp
    /\ Deferred

\* The bytes start with a TLS record whose ClientHello is not all there yet.
IncompleteHello == sniff(data_client).verdict = "NeedsMoreBytes"

\* C14: with an ignore list or an allow list, on bytes that start with a TLS
\* record whose ClientHello is incomplete, ignore_connection answers None
\* and the hook returns no layer: no TLS, HTTP or TCP layer, whatever the
\* server address is.
C14_FilterDefers ==
    (Asked /\ HasLayers /\ ~NoFilter /\ IncompleteHello) =>
        /\ ignore_connection(options, context, data_client) = Answer("None")
        /\ Deferred

C14_Witness ==
    /\ Asked /\ HasLayers /\ IgnoredServer
    /\ data_client = <<22, 3, 1, 1>>
    /\ IncompleteHello
    /\ Deferred

\* The sniffer's verdict on the bytes is final: no TLS record, a parsed
\* ClientHello or a malformed one.
FinalVerdict == sniff(data_client).verdict \in {"NotTls", "Parsed", "Malformed"}

\* The hook is being asked for a layer on at least three bytes whose verdict
\* is final.
Classifiable ==
    HasLayers /\ ~Decided /\ Len(data_client) >= 3 /\ FinalVerdict

\* C15: on a connection whose hook is asked again and again, once there are
\* three bytes and the sniffer's verdict is final the hook returns a layer.
C15_Original ==
    Classifiable ~> (Asked /\ last.exc = "" /\ last.layer # NoLayer)

\* C16: an option update that configure rejects leaves the addon's three
\* lists, tcp_hosts, ignore_hosts and allow_hosts, as they were.
C16_Original ==
    [][(last'.op = "configure" /\ last'.exc = "OptionsError") => addon' = addon]_vars

\* C17: the hook returns TCPLayer(ignore=True) only with an ignore list or
\* an allow list configured and a host name known, from the server address
\* or from the ClientHello; on a non-empty stack with three bytes, with no
\* list configured, or with no server address and bytes that are no TLS
\* record, the hook returns what steps 2 to 6 give, which is never
\* TCPLayer(ignore=True).
C17_KnownHostOnly ==
    /\ Asks(Layer("TCPLayer", "ignore=True")) => (~NoFilter /\ Candidates # {})
    /\ (Asked /\ HasLayers /\ Len(data_client) >= 3
          /\ (NoFilter \/ (context.server_address = NoAddress /\ ~TlsBytes)))
       => /\ last = Ran("next_layer", classify(addon, options, context, data_client))
          /\ last.exc = ""
          /\ last.layer \in {Layer("ClientTLSLayer", ""), Layer("ServerTLSLayer", ""),
                             Layer("HttpLayer", "regular"), Layer("HttpLayer", "upstream"),
                             Layer("HttpLayer", "transparent"),
                             Layer("TCPLayer", "ignore=False")}

C17_Witness ==
    /\ Asked /\ HasLayers /\ options.allow_hosts # {}
    /\ context.server_address = NoAddress
    /\ data_client = <<1, 2, 3>>
    /\ Asks(Layer("HttpLayer", "transparent"))

\* The classes of the layers make_top_layer returns.
ModeLayers == {"HttpProxy", "TransparentProxy", "ReverseProxy"}

\* C18: the first layer of every stack is a mode layer and no later layer
\* is one, however the mode is changed while the stack is built; a mode
\* layer or the error of an unimplemented mode is the hook's answer only on
\* an empty stack.
C18_TopLayerOnce ==
    /\ HasLayers =>
          /\ StackClasses[1] \in ModeLayers
          /\ \A i \in 2..Len(context.layers) : StackClasses[i] \notin ModeLayers
    /\ (Asked /\ HasLayers) =>
          /\ last.layer.cls \notin ModeLayers
          /\ last.exc \notin {"NotImplementedError: Mode not implemented.",
                              "NotImplementedError: Unknown mode."}

C18_Witness ==
    /\ StackClasses = <<"TransparentProxy", "ServerTLSLayer", "ClientTLSLayer">>
    /\ options.mode = "reverse:http://r:80"
    /\ data_client = <<>>
    /\ Deferred

\* The layer at position i has the parent a client TLS layer needs: a
\* ServerTLSLayer, or the mode layer of a reverse or regular proxy.
TlsParent(i) ==
    /\ i > 1
    /\ \/ StackClasses[i - 1] = "ServerTLSLayer"
       \/ (i = 2 /\ StackClasses[1] \in {"ReverseProxy", "HttpProxy"})

\* C19: every ClientTLSLayer of a stack, and the ClientTLSLayer the hook
\* wants pushed next, sits on a ServerTLSLayer or is the second layer, on a
\* ReverseProxy or HttpProxy; under a TransparentProxy no ClientTLSLayer
\* comes before the first ServerTLSLayer.
C19_ClientTlsParent ==
    /\ \A i \in 1..Len(context.layers) :
          StackClasses[i] = "ClientTLSLayer" => TlsParent(i)
    /\ Asks(Layer("ClientTLSLayer", "")) =>
          \/ StackClasses[Len(context.layers)] = "ServerTLSLayer"
          \/ StackClasses \in {<<"ReverseProxy">>, <<"HttpProxy">>}
    /\ (HasLayers /\ StackClasses[1] = "TransparentProxy") =>
          \A i \in 1..Len(context.layers) :
              StackClasses[i] = "ClientTLSLayer" =>
                  \E j \in 1..(i - 1) : StackClasses[j] = "ServerTLSLayer"

C19_Witness ==
    /\ StackClasses = <<"HttpProxy", "ClientTLSLayer", "ServerTLSLayer">>
    /\ options.mode = "transparent"
    /\ Asks(Layer("ClientTLSLayer", ""))

\* C20: whenever the hook answers HttpLayer(upstream) the mode option is
\* upstream:<addr>, and whenever it answers HttpLayer(regular) the mode
\* option is regular, however mode changes and calls of the hook are
\* interleaved on a connection.
C20_Original ==
    /\ Asks(Layer("HttpLayer", "upstream")) => options.mode = "upstream:http://u:8080"
    /\ Asks(Layer("HttpLayer", "regular")) => options.mode = "regular"

====
